---- MODULE Spec2Model ----
(***************************************************************************)
(* Model of src/main.py: a daily dollar-cost-averaging job.  The module    *)
(* top level reads the credentials and the paper/live flag and builds the  *)
(* trading client; schedule_dca registers run_dca_strategy on a daily      *)
(* 09:35 trigger, runs it once at once and then polls the trigger every    *)
(* 60 seconds.  One strategy cycle is get_clock, get_account, submit_order *)
(* with two gates in between.  Time is counted in minutes since midnight   *)
(* of the day the process starts.  The brokerage and the schedule library  *)
(* are the environment: every call returns or raises nondeterministically. *)
(***************************************************************************)
EXTENDS Integers, Sequences, FiniteSets, TLC

VARIABLES
    env,            \* process environment: name -> value (a sequence of characters)
    pc,             \* position of the single thread
    exit_code,      \* <<>> while the process lives, <<1>> after exit(1)
    is_paper,       \* main.py:33
    trading_client, \* <<>> before construction, <<[paper |-> b]>> after
    now,            \* wall clock, minutes since midnight of the start day
    next_run,       \* the registered job's next_run, <<>> before registration
    caller,         \* who called run_dca_strategy: "startup" or "schedule"
    clock,          \* place_order's clock of this cycle, <<>> until fetched
    cash_balance,   \* place_order's cash_balance of this cycle, <<>> until fetched
    log,            \* log lines since the latest cycle began (or since start)
    calls,          \* brokerage calls of the latest cycle, in order
    submitted,      \* order requests handed to submit_order in the latest cycle
    outcome,        \* how the latest cycle ended ("running" while it runs)
    prevOutcome,    \* how the cycle before the latest ended
    cycles,         \* number of run_dca_strategy invocations so far
    lastFired,      \* the next_run value consumed by the latest scheduled cycle
    lastOrderDay,   \* day of the latest accepted order, -1 if none
    ordersToday,    \* accepted orders on lastOrderDay
    ordersBefore    \* accepted orders of the current day when the latest cycle began

vars == <<env, pc, exit_code, is_paper, trading_client, now, next_run, caller,
          clock, cash_balance, log, calls, submitted, outcome, prevOutcome,
          cycles, lastFired, lastOrderDay, ordersToday, ordersBefore>>

----------------------------------------------------------------------------
(* Bounds of the exploration. *)

StartSpread == 2    \* the process starts within StartSpread minutes of 09:35
Horizon == 3        \* Spec: polling stops Horizon minutes after 09:35 of day 0
DayExtra == 2       \* DaySpec: polling stops DayExtra minutes after 09:35 of day 1
MaxDelay == 1       \* a brokerage call takes 0..MaxDelay minutes
CashBits == 8       \* cash amounts are multiples of 1/2^CashBits dollar

(* Program constants. *)

SYMBOL == "SPY"
DAILY_INVESTMENT == 100
DayMinutes == 1440              \* every().day
AtTime == 575                   \* at("09:35"), minutes since midnight
SleepMinutes == 1               \* time.sleep(60)

CashDenom == 2 ^ CashBits
Dollars(n) == n * CashDenom

----------------------------------------------------------------------------
(* Strings that the code inspects are sequences of characters. *)

UpperLetters == <<"A","B","C","D","E","F","G","H","I","J","K","L","M",
                  "N","O","P","Q","R","S","T","U","V","W","X","Y","Z">>
LowerLetters == <<"a","b","c","d","e","f","g","h","i","j","k","l","m",
                  "n","o","p","q","r","s","t","u","v","w","x","y","z">>

LowerChar(c) ==
    IF \E i \in 1..26 : UpperLetters[i] = c
    THEN LowerLetters[CHOOSE i \in 1..26 : UpperLetters[i] = c]
    ELSE c

\* str.lower()
Lower(s) == [i \in 1..Len(s) |-> LowerChar(s[i])]

\* os.getenv(name, default): <<>> wraps "absent" (None) when no default applies
Getenv(name) == IF name \in DOMAIN env THEN <<env[name]>> ELSE <<>>
GetenvDefault(name, default) == IF name \in DOMAIN env THEN env[name] ELSE default

\* (variant) only None counts as missing, as `is None` would test
FalsyNoneOnly(v) == v = <<>>

\* Python truthiness of an Optional[str]: None and "" are falsy
Falsy(v) == IF v = <<>> THEN TRUE ELSE v[1] = <<>>

\* (variant) the comparison without .lower()
IsPaperFlagCaseSensitive == GetenvDefault("IS_PAPER", <<"t","r","u","e">>) = <<"t","r","u","e">>

IsPaperFlag == Lower(GetenvDefault("IS_PAPER", <<"t","r","u","e">>)) = <<"t","r","u","e">>

CredentialsMissing == Falsy(Getenv("ALPACA_API_KEY")) \/ Falsy(Getenv("ALPACA_API_SECRET"))

KeyValues == { <<>>, <<"k">> }
PaperValues == { <<"t","r","u","e">>, <<"T","R","U","E">>, <<"T","r","u","e">>,
                 <<"t","R","u","E">>, <<"f","a","l","s","e">>, <<"1">>,
                 <<"y","e","s">>, <<>>, <<"t","r","u","e"," ">>, <<"t","r","u">> }

EnvNames == {"ALPACA_API_KEY", "ALPACA_API_SECRET", "IS_PAPER"}

Environments ==
    UNION { { e \in [D -> KeyValues \cup PaperValues] :
                /\ \A n \in D \ {"IS_PAPER"} : e[n] \in KeyValues
                /\ "IS_PAPER" \in D => e["IS_PAPER"] \in PaperValues }
            : D \in SUBSET EnvNames }

----------------------------------------------------------------------------
(* Log lines: level, message template, formatted arguments. *)

Entry(level, msg, arg) == [level |-> level, msg |-> msg, arg |-> arg]

\* datetime.strftime('%Y-%m-%d %H:%M:%S'): the microseconds are dropped
Strftime(t) == <<t.date, t.sec>>

\* n / d rounded to the nearest integer, ties to even
RoundHalfEven(n, d) ==
    LET q == n \div d
        r == n % d
    IN  IF 2 * r < d THEN q
        ELSE IF 2 * r > d THEN q + 1
        ELSE IF q % 2 = 0 THEN q ELSE q + 1

\* f"{x:.2f}" of a cash amount: the number of cents shown
Format2f(x) == RoundHalfEven(x * 100, CashDenom)

----------------------------------------------------------------------------
(* What the brokerage can return. *)

NextOpens == { [date |-> d, sec |-> 34200, usec |-> u] : d \in {1, 3}, u \in {0, 1} }
Clocks == { [is_open |-> o, next_open |-> t] : o \in BOOLEAN, t \in NextOpens }

CashValues == { 0, Dollars(50), Dollars(50) + CashDenom \div 8,
                Dollars(50) + 3 * (CashDenom \div 8),
                Dollars(100) - 1, Dollars(100), Dollars(100) + 1, Dollars(500) }
Accounts == { [id |-> 7, cash |-> c, portfolio_value |-> c] : c \in CashValues }

Delays == 0..MaxDelay

\* MarketOrderRequest(...) of place_order
MarketOrderRequest ==
    [symbol |-> SYMBOL, notional |-> DAILY_INVESTMENT, side |-> "buy",
     time_in_force |-> "day"]

----------------------------------------------------------------------------
(* The schedule library, as main.py uses it. *)

Day(t) == t \div DayMinutes

\* Job._schedule_next_run for every().day.at("09:35"): the first 09:35 strictly
\* after t  (today's if at_time > now.time(), else tomorrow's)
NextRunAfter(t) ==
    IF AtTime > t % DayMinutes
    THEN Day(t) * DayMinutes + AtTime
    ELSE (Day(t) + 1) * DayMinutes + AtTime

\* (variant) the job runs at every poll
ShouldRunAlways(t, job) == TRUE

\* Job.should_run, evaluated by run_pending
ShouldRun(t, job) == t >= job

----------------------------------------------------------------------------
(* Initial state: the interpreter is about to run the module top level. *)

StartTimes == (AtTime - StartSpread)..(AtTime + StartSpread)

Init ==
    /\ env \in Environments
    /\ pc = "start"
    /\ exit_code = <<>>
    /\ is_paper = FALSE
    /\ trading_client = <<>>
    /\ now \in StartTimes
    /\ next_run = <<>>
    /\ caller = "none"
    /\ clock = <<>>
    /\ cash_balance = <<>>
    /\ log = <<>>
    /\ calls = <<>>
    /\ submitted = <<>>
    /\ outcome = "none"
    /\ prevOutcome = "none"
    /\ cycles = 0
    /\ lastFired = -1
    /\ lastOrderDay = -1
    /\ ordersToday = 0
    /\ ordersBefore = 0

\* The same, with the credentials set and IS_PAPER left unset.
DayInit ==
    /\ Init
    /\ DOMAIN env = {"ALPACA_API_KEY", "ALPACA_API_SECRET"}
    /\ ~CredentialsMissing

\* The values the state takes.
TypeOK ==
    /\ env \in Environments
    /\ pc \in {"start", "exited", "main", "run_now", "get_clock", "get_account",
               "submit_order", "run_pending", "sleep"}
    /\ exit_code \in {<<>>, <<1>>}
    /\ is_paper \in BOOLEAN
    /\ trading_client \in {<<>>, <<[paper |-> TRUE]>>, <<[paper |-> FALSE]>>}
    /\ now \in Nat
    /\ next_run \in {<<>>} \cup { <<t>> : t \in {AtTime, DayMinutes + AtTime, 2 * DayMinutes + AtTime} }
    /\ caller \in {"none", "startup", "schedule"}
    /\ clock \in {<<>>} \cup { <<c>> : c \in Clocks }
    /\ cash_balance \in {<<>>} \cup { <<c>> : c \in CashValues }
    /\ \A i \in DOMAIN log : log[i].level \in {"INFO", "WARNING", "ERROR"}
    /\ \A i \in DOMAIN calls : calls[i] \in {"get_clock", "get_account", "submit_order"}
    /\ \A i \in DOMAIN submitted : submitted[i] = MarketOrderRequest
    /\ outcome \in {"none", "running", "closed", "insufficient", "ordered",
                    "order_error", "gate_error"}
    /\ prevOutcome \in {"none", "closed", "insufficient", "ordered",
                        "order_error", "gate_error"}
    /\ cycles \in Nat
    /\ lastFired \in {-1, AtTime, DayMinutes + AtTime}
    /\ lastOrderDay \in {-1, 0, 1}
    /\ ordersToday \in 0..2
    /\ ordersBefore \in 0..2

cycleVars == <<clock, cash_balance, log, calls, submitted, outcome, prevOutcome,
               cycles, lastFired, lastOrderDay, ordersToday, ordersBefore>>
procVars == <<env, exit_code, is_paper, trading_client>>

----------------------------------------------------------------------------
(* Module top level, main.py:31-40. *)

\* credentials missing: log the error and exit(1)
credentials_exit ==
    /\ pc = "start"
    /\ CredentialsMissing
    /\ is_paper' = IsPaperFlag
    /\ log' = Append(log, Entry("ERROR", "API keys not found. Please check your .env file.", <<>>))
    /\ exit_code' = <<1>>
    /\ pc' = "exited"
    /\ UNCHANGED <<env, trading_client, now, next_run, caller, clock, cash_balance,
                   calls, submitted, outcome, prevOutcome, cycles, lastFired,
                   lastOrderDay, ordersToday, ordersBefore>>

\* credentials present: TradingClient(api_key, api_secret, paper=is_paper)
client_init ==
    /\ pc = "start"
    /\ ~CredentialsMissing
    /\ is_paper' = IsPaperFlag
    /\ trading_client' = <<[paper |-> is_paper']>>
    /\ pc' = "main"
    /\ UNCHANGED <<env, exit_code, now, next_run, caller>>
    /\ UNCHANGED cycleVars

----------------------------------------------------------------------------
(* run_dca_strategy and place_order, main.py:69-105, cut at the brokerage  *)
(* calls.                                                                  *)

\* (variant) a clock fetched by an earlier cycle is reused instead of fetched anew
BeginCycleCached(who) ==
    /\ caller' = who
    /\ log' = <<Entry("INFO", "Running DCA strategy...", <<>>)>>
    /\ calls' = <<>>
    /\ submitted' = <<>>
    /\ clock' = clock
    /\ cash_balance' = <<>>
    /\ prevOutcome' = outcome
    /\ outcome' = "running"
    /\ cycles' = cycles + 1
    /\ ordersBefore' = IF lastOrderDay = Day(now) THEN ordersToday ELSE 0
    /\ pc' = IF clock # <<>> /\ clock[1].is_open THEN "get_account" ELSE "get_clock"

\* run_dca_strategy is entered by `who`: the cycle's observations start afresh
BeginCycle(who) ==
    /\ caller' = who
    /\ log' = <<Entry("INFO", "Running DCA strategy...", <<>>)>>
    /\ calls' = <<>>
    /\ submitted' = <<>>
    /\ clock' = <<>>
    /\ cash_balance' = <<>>
    /\ prevOutcome' = outcome
    /\ outcome' = "running"
    /\ cycles' = cycles + 1
    /\ ordersBefore' = IF lastOrderDay = Day(now) THEN ordersToday ELSE 0
    /\ pc' = "get_clock"

\* run_dca_strategy returns to its caller: schedule_dca's loop, or the job run
\* by run_pending, which then computes the job's next run and goes to sleep
Return ==
    IF caller = "startup"
    THEN pc' = "run_pending" /\ UNCHANGED next_run
    ELSE pc' = "sleep" /\ next_run' = <<NextRunAfter(now')>>

\* (variant) check_market_hours ignores the clock
check_market_hours_always(c) == TRUE

\* the value check_market_hours returns for a clock
check_market_hours(c) == c.is_open

\* (variant) only an empty account counts as insufficient
InsufficientFundsEmpty(cash) == cash <= 0

\* (variant) the boundary is excluded: cash equal to the daily amount is refused
InsufficientFundsInclusive(cash) == cash <= Dollars(DAILY_INVESTMENT)

\* the sufficiency test of place_order, main.py:77
InsufficientFunds(cash) == cash < Dollars(DAILY_INVESTMENT)

\* get_clock returned a clock saying the market is closed
market_closed ==
    /\ pc = "get_clock"
    /\ \E c \in Clocks, d \in Delays :
        /\ ~check_market_hours(c)
        /\ now' = now + d
        /\ clock' = <<c>>
        /\ calls' = Append(calls, "get_clock")
        /\ log' = log \o
             << Entry("INFO", "Market is closed. Next market open: ", Strftime(c.next_open)),
                Entry("INFO", "Skipping order as market is closed.", <<>>),
                Entry("INFO", "DCA execution completed", <<>>) >>
    /\ outcome' = "closed"
    /\ Return
    /\ UNCHANGED procVars
    /\ UNCHANGED <<caller, cash_balance, submitted, prevOutcome, cycles, lastFired,
                   lastOrderDay, ordersToday, ordersBefore>>

\* get_clock returned a clock saying the market is open
market_open ==
    /\ pc = "get_clock"
    /\ \E c \in Clocks, d \in Delays :
        /\ check_market_hours(c)
        /\ now' = now + d
        /\ clock' = <<c>>
    /\ calls' = Append(calls, "get_clock")
    /\ pc' = "get_account"
    /\ UNCHANGED procVars
    /\ UNCHANGED <<next_run, caller, cash_balance, log, submitted, outcome,
                   prevOutcome, cycles, lastFired, lastOrderDay, ordersToday,
                   ordersBefore>>

\* the three lines get_account_info logs
AccountLines(a) ==
    << Entry("INFO", "Account ID: ", <<a.id>>),
       Entry("INFO", "Cash Balance: $", <<Format2f(a.cash)>>),
       Entry("INFO", "Portfolio Value: $", <<Format2f(a.portfolio_value)>>) >>

\* get_account returned, and the cash does not cover the daily amount
insufficient_funds ==
    /\ pc = "get_account"
    /\ \E a \in Accounts, d \in Delays :
        /\ InsufficientFunds(a.cash)
        /\ now' = now + d
        /\ cash_balance' = <<a.cash>>
        /\ log' = log \o AccountLines(a) \o
             << Entry("WARNING", "Insufficient funds. Available cash: $", <<Format2f(a.cash)>>),
                Entry("INFO", "DCA execution completed", <<>>) >>
    /\ calls' = Append(calls, "get_account")
    /\ outcome' = "insufficient"
    /\ Return
    /\ UNCHANGED procVars
    /\ UNCHANGED <<caller, clock, submitted, prevOutcome, cycles, lastFired,
                   lastOrderDay, ordersToday, ordersBefore>>

\* (variant) at most one order a day: a cycle that finds an order already placed
\* today skips the submission
sufficient_funds_once_a_day ==
    /\ pc = "get_account"
    /\ \E a \in Accounts, d \in Delays :
        /\ ~InsufficientFunds(a.cash)
        /\ now' = now + d
        /\ cash_balance' = <<a.cash>>
        /\ log' = log \o AccountLines(a) \o
             (IF ordersBefore = 0 THEN <<>>
              ELSE <<Entry("INFO", "DCA execution completed", <<>>)>>)
    /\ calls' = Append(calls, "get_account")
    /\ IF ordersBefore = 0
       THEN pc' = "submit_order" /\ UNCHANGED <<next_run, outcome>>
       ELSE outcome' = "skipped" /\ Return
    /\ UNCHANGED procVars
    /\ UNCHANGED <<caller, clock, submitted, prevOutcome, cycles,
                   lastFired, lastOrderDay, ordersToday, ordersBefore>>

\* get_account returned, and the cash covers the daily amount
sufficient_funds ==
    /\ pc = "get_account"
    /\ \E a \in Accounts, d \in Delays :
        /\ ~InsufficientFunds(a.cash)
        /\ now' = now + d
        /\ cash_balance' = <<a.cash>>
        /\ log' = log \o AccountLines(a)
    /\ calls' = Append(calls, "get_account")
    /\ pc' = "submit_order"
    /\ UNCHANGED procVars
    /\ UNCHANGED <<next_run, caller, clock, submitted, outcome, prevOutcome, cycles,
                   lastFired, lastOrderDay, ordersToday, ordersBefore>>

\* submit_order returned an order
order_placed ==
    /\ pc = "submit_order"
    /\ \E d \in Delays : now' = now + d
    /\ calls' = Append(calls, "submit_order")
    /\ submitted' = Append(submitted, MarketOrderRequest)
    /\ log' = log \o
         << Entry("INFO", "Order placed successfully - Order ID: ", <<>>),
            Entry("INFO", "Buying $ of ", <<DAILY_INVESTMENT>>),
            Entry("INFO", "DCA execution completed", <<>>) >>
    /\ lastOrderDay' = Day(now')
    /\ ordersToday' = IF lastOrderDay = Day(now') THEN ordersToday + 1 ELSE 1
    /\ outcome' = "ordered"
    /\ Return
    /\ UNCHANGED procVars
    /\ UNCHANGED <<caller, clock, cash_balance, prevOutcome, cycles, lastFired,
                   ordersBefore>>

\* (variant) the handler submits the order a second time before giving up
order_error_retry ==
    /\ pc = "submit_order"
    /\ \E d \in Delays : now' = now + d
    /\ calls' = calls \o <<"submit_order", "submit_order">>
    /\ submitted' = submitted \o <<MarketOrderRequest, MarketOrderRequest>>
    /\ log' = log \o
         << Entry("ERROR", "Error placing order: ", <<>>),
            Entry("ERROR", "Error placing order: ", <<>>),
            Entry("INFO", "DCA execution completed", <<>>) >>
    /\ outcome' = "order_error"
    /\ Return
    /\ UNCHANGED procVars
    /\ UNCHANGED <<caller, clock, cash_balance, prevOutcome, cycles, lastFired,
                   lastOrderDay, ordersToday, ordersBefore>>

\* submit_order raised: caught in place_order, main.py:94-95
order_error ==
    /\ pc = "submit_order"
    /\ \E d \in Delays : now' = now + d
    /\ calls' = Append(calls, "submit_order")
    /\ submitted' = Append(submitted, MarketOrderRequest)
    /\ log' = log \o
         << Entry("ERROR", "Error placing order: ", <<>>),
            Entry("INFO", "DCA execution completed", <<>>) >>
    /\ outcome' = "order_error"
    /\ Return
    /\ UNCHANGED procVars
    /\ UNCHANGED <<caller, clock, cash_balance, prevOutcome, cycles, lastFired,
                   lastOrderDay, ordersToday, ordersBefore>>

\* (variant) run_dca_strategy has no catch-all: the exception ends the process
gate_error_fatal ==
    /\ pc \in {"get_clock", "get_account"}
    /\ \E d \in Delays : now' = now + d
    /\ calls' = Append(calls, pc)
    /\ outcome' = "gate_error"
    /\ pc' = "exited"
    /\ exit_code' = <<1>>
    /\ UNCHANGED <<env, is_paper, trading_client>>
    /\ UNCHANGED <<next_run, caller, clock, cash_balance, log, submitted, prevOutcome,
                   cycles, lastFired, lastOrderDay, ordersToday, ordersBefore>>

\* get_clock or get_account raised: nothing in place_order catches it, the
\* catch-all of run_dca_strategy does, main.py:104-105
gate_error ==
    /\ pc \in {"get_clock", "get_account"}
    /\ \E d \in Delays : now' = now + d
    /\ calls' = Append(calls, pc)
    /\ log' = Append(log, Entry("ERROR", "Error executing DCA strategy: ", <<>>))
    /\ outcome' = "gate_error"
    /\ Return
    /\ UNCHANGED procVars
    /\ UNCHANGED <<caller, clock, cash_balance, submitted, prevOutcome, cycles,
                   lastFired, lastOrderDay, ordersToday, ordersBefore>>

----------------------------------------------------------------------------
(* __main__ and schedule_dca, main.py:108-125. *)

\* schedule.every().day.at("09:35").do(run_dca_strategy)
schedule_job ==
    /\ pc = "main"
    /\ next_run' = <<NextRunAfter(now)>>
    /\ log' = log \o
         << Entry("INFO", "Starting DCA strategy for S&P 500 ($100 daily investment)", <<>>),
            Entry("INFO", "DCA strategy scheduled to run daily at 9:35 AM", <<>>) >>
    /\ pc' = "run_now"
    /\ UNCHANGED procVars
    /\ UNCHANGED <<now, caller, clock, cash_balance, calls, submitted, outcome,
                   prevOutcome, cycles, lastFired, lastOrderDay, ordersToday,
                   ordersBefore>>

\* run_dca_strategy(), main.py:115
run_now ==
    /\ pc = "run_now"
    /\ BeginCycle("startup")
    /\ UNCHANGED procVars
    /\ UNCHANGED <<now, next_run, lastFired, lastOrderDay, ordersToday>>

\* schedule.run_pending() with the job due: the job runs
run_pending_due ==
    /\ pc = "run_pending"
    /\ ShouldRun(now, next_run[1])
    /\ BeginCycle("schedule")
    /\ lastFired' = next_run[1]
    /\ UNCHANGED procVars
    /\ UNCHANGED <<now, next_run, lastOrderDay, ordersToday>>

\* schedule.run_pending() with the job not due
run_pending_idle ==
    /\ pc = "run_pending"
    /\ ~ShouldRun(now, next_run[1])
    /\ pc' = "sleep"
    /\ UNCHANGED procVars
    /\ UNCHANGED <<now, next_run, caller>>
    /\ UNCHANGED cycleVars

\* time.sleep(60), explored until `last`
sleep(last) ==
    /\ pc = "sleep"
    /\ now < last
    /\ now' = now + SleepMinutes
    /\ pc' = "run_pending"
    /\ UNCHANGED procVars
    /\ UNCHANGED <<next_run, caller>>
    /\ UNCHANGED cycleVars

Cycle ==
    \/ market_closed
    \/ market_open
    \/ insufficient_funds
    \/ sufficient_funds
    \/ order_placed
    \/ order_error
    \/ gate_error

Scheduler ==
    \/ schedule_job
    \/ run_now
    \/ run_pending_due
    \/ run_pending_idle

Next ==
    \/ credentials_exit
    \/ client_init
    \/ Cycle
    \/ Scheduler
    \/ sleep(AtTime + Horizon)

Spec == Init /\ [][Next]_vars

DayNext ==
    \/ client_init
    \/ Cycle
    \/ Scheduler
    \/ sleep(DayMinutes + AtTime + DayExtra)

DaySpec == DayInit /\ [][DayNext]_vars

----------------------------------------------------------------------------
(* Vocabulary of the properties. *)

Called(op) == \E i \in DOMAIN calls : calls[i] = op
TimesCalled(op) == Cardinality({ i \in DOMAIN calls : calls[i] = op })
Logged(e) == \E i \in DOMAIN log : log[i] = e
LoggedAt(level, msg) == \E i \in DOMAIN log : log[i].level = level /\ log[i].msg = msg

InCycle == pc \in {"get_clock", "get_account", "submit_order"}
InLoop == pc \in {"run_pending", "sleep"}
Alive == pc # "exited" /\ exit_code = <<>>

ClockClosed == clock # <<>> /\ ~clock[1].is_open
ClockOpen == clock # <<>> /\ clock[1].is_open
DailyAmount == 100 * CashDenom
CashShort == cash_balance # <<>> /\ cash_balance[1] < DailyAmount
CashEnough == cash_balance # <<>> /\ cash_balance[1] >= DailyAmount

\* c cents is the amount x shown with two decimals: no other cent count is nearer
NearestCents(x, c) ==
    /\ 2 * (100 * x - c * CashDenom) <= CashDenom
    /\ 2 * (c * CashDenom - 100 * x) <= CashDenom

----------------------------------------------------------------------------
\* C1: in a cycle whose clock says the market is closed, submit_order is never
\* called, and once the cycle has returned the log holds the line "Market is
\* closed. Next market open: " with that clock's next_open.
MarketClosedNoOrder ==
    ClockClosed =>
        /\ ~Called("submit_order")
        /\ submitted = <<>>
        /\ ~InCycle =>
             Logged([level |-> "INFO", msg |-> "Market is closed. Next market open: ",
                     arg |-> <<clock[1].next_open.date, clock[1].next_open.sec>>])

MarketClosedSeen ==
    /\ ClockClosed
    /\ outcome = "closed"
    /\ InLoop
    /\ clock[1].next_open.usec = 1

\* C2: in a cycle with the market open and cash below the daily amount,
\* submit_order is never called, and a WARNING line carries the cash balance
\* rounded to two decimals (50.00 for a balance of 50).
InsufficientFundsNoOrder ==
    (ClockOpen /\ CashShort) =>
        /\ ~Called("submit_order")
        /\ submitted = <<>>
        /\ \E i \in DOMAIN log :
            /\ log[i].level = "WARNING"
            /\ Len(log[i].arg) = 1
            /\ NearestCents(cash_balance[1], log[i].arg[1])
            /\ cash_balance[1] = 50 * CashDenom => log[i].arg[1] = 5000

InsufficientFundsSeen ==
    /\ ClockOpen
    /\ cash_balance = <<50 * CashDenom>>
    /\ outcome = "insufficient"
    /\ InLoop

\* C3: a cycle that ended with the market open and cash at least the daily
\* amount (100 exactly included) called submit_order exactly once, with
\* symbol SPY, notional 100, side buy, time in force day.
SufficientFundsOneOrder ==
    (ClockOpen /\ CashEnough /\ ~InCycle) =>
        /\ TimesCalled("submit_order") = 1
        /\ submitted = << [symbol |-> "SPY", notional |-> 100, side |-> "buy",
                           time_in_force |-> "day"] >>

ExactAmountOrdered ==
    /\ ClockOpen
    /\ cash_balance = <<DailyAmount>>
    /\ outcome = "ordered"
    /\ InLoop

\* C4: when submit_order raises, the error is logged at ERROR, submit_order
\* was called once in that cycle, the process stays alive in the polling loop
\* with the trigger armed, and the poll at which the trigger is due starts the
\* next cycle, which begins by calling get_clock again.
OrderErrorSwallowed ==
    [][ /\ outcome' = "order_error" =>
            /\ LoggedAt("ERROR", "Error placing order: ")'
            /\ TimesCalled("submit_order")' = 1
            /\ Len(submitted') = 1
            /\ InLoop'
            /\ Alive'
            /\ next_run' # <<>>
        /\ (outcome = "order_error" /\ pc = "run_pending" /\ now >= next_run[1]) =>
            /\ cycles' = cycles + 1
            /\ pc' = "get_clock"
            /\ calls' = <<>>
            /\ clock' = <<>>
            /\ cash_balance' = <<>>
      ]_vars

CycleAfterOrderError ==
    /\ prevOutcome = "order_error"
    /\ calls = <<"get_clock", "get_account">>
    /\ lastFired >= 0

\* C5: when get_clock or get_account raises, run_dca_strategy logs the error
\* at ERROR and returns: no later gate is queried and no order is submitted in
\* that cycle, the process stays alive in the polling loop, and the poll at
\* which the trigger is due starts the next cycle.
GateErrorSwallowed ==
    [][ /\ outcome' = "gate_error" =>
            /\ log'[Len(log')] = [level |-> "ERROR",
                                  msg |-> "Error executing DCA strategy: ",
                                  arg |-> <<>>]
            /\ ~LoggedAt("INFO", "DCA execution completed")'
            /\ calls' \in { <<"get_clock">>, <<"get_clock", "get_account">> }
            /\ calls' = <<"get_clock">> => clock' = <<>>
            /\ cash_balance' = <<>>
            /\ submitted' = <<>>
            /\ InLoop'
            /\ Alive'
            /\ next_run' # <<>>
        /\ (outcome = "gate_error" /\ pc = "run_pending" /\ now >= next_run[1]) =>
            /\ cycles' = cycles + 1
            /\ pc' = "get_clock"
      ]_vars

CycleAfterGateError ==
    /\ prevOutcome = "gate_error"
    /\ outcome = "ordered"
    /\ lastFired >= 0

\* C6: with ALPACA_API_KEY or ALPACA_API_SECRET unset or empty, the process
\* exits with status 1; the client is never constructed, no job is
\* registered, no cycle runs and no brokerage call is made.
KeyAbsent(name) == IF name \in DOMAIN env THEN env[name] = <<>> ELSE TRUE

MissingCredentialsExit ==
    (pc # "start" /\ (KeyAbsent("ALPACA_API_KEY") \/ KeyAbsent("ALPACA_API_SECRET"))) =>
        /\ pc = "exited"
        /\ exit_code = <<1>>
        /\ trading_client = <<>>
        /\ next_run = <<>>
        /\ cycles = 0
        /\ calls = <<>>
        /\ submitted = <<>>

EmptyKeyExited ==
    /\ pc = "exited"
    /\ DOMAIN env = EnvNames
    /\ env["ALPACA_API_KEY"] = <<>>
    /\ env["ALPACA_API_SECRET"] # <<>>

\* C7: run_dca_strategy is invoked once right after registration, whatever
\* the start time; every later invocation is made by a poll at which the
\* 09:35 trigger is due, each for a later 09:35 than the one before; polls are
\* 60 seconds apart; after a scheduled run the trigger is set to the next
\* 09:35, at most a day ahead; the loop never exits.
SchedulerContract ==
    [][ /\ cycles' # cycles =>
            \/ /\ pc = "run_now"
               /\ cycles = 0
               /\ caller' = "startup"
               /\ now' = now
            \/ /\ pc = "run_pending"
               /\ cycles >= 1
               /\ caller' = "schedule"
               /\ now >= next_run[1]
               /\ next_run[1] % 1440 = 575
               /\ next_run[1] > lastFired
               /\ lastFired' = next_run[1]
        /\ pc = "run_now" => cycles' = 1
        /\ (InLoop \/ InCycle) =>
            /\ InLoop' \/ InCycle'
            /\ Alive'
            /\ cycles' >= 1
        /\ (pc = "sleep" /\ pc' # "sleep") => (pc' = "run_pending" /\ now' = now + 1)
        /\ (InCycle /\ caller = "schedule" /\ InLoop') =>
            /\ pc' = "sleep"
            /\ next_run'[1] > now'
            /\ next_run'[1] <= now' + 1440
            /\ next_run'[1] % 1440 = 575
        /\ (InCycle /\ caller = "startup" /\ InLoop') =>
            /\ pc' = "run_pending"
            /\ next_run' = next_run
      ]_vars

SecondDayFired ==
    /\ lastFired = 1440 + 575
    /\ cycles >= 2
    /\ outcome = "ordered"

\* C8: the mode is paper exactly when IS_PAPER is unset or spells "true" in
\* any letter case; "1", "yes", "false" and the empty string give live mode;
\* the client is constructed with the mode computed at startup.
SameLetter(a, b) ==
    a = b \/ \E k \in 1..26 : {a, b} = {UpperLetters[k], LowerLetters[k]}

EqualsIgnoreCase(s, t) ==
    Len(s) = Len(t) /\ \A i \in 1..Len(s) : SameLetter(s[i], t[i])

PaperExpected ==
    IF "IS_PAPER" \in DOMAIN env
    THEN EqualsIgnoreCase(env["IS_PAPER"], <<"t","r","u","e">>)
    ELSE TRUE

PaperModeRule ==
    pc # "start" =>
        /\ is_paper = PaperExpected
        /\ trading_client # <<>> => trading_client[1].paper = is_paper
        /\ ("IS_PAPER" \in DOMAIN env /\
            env["IS_PAPER"] \in { <<"1">>, <<"y","e","s">>, <<"f","a","l","s","e">>, <<>> })
             => ~is_paper

MixedCasePaper ==
    /\ trading_client # <<>>
    /\ trading_client[1].paper
    /\ "IS_PAPER" \in DOMAIN env
    /\ env["IS_PAPER"] = <<"t","R","u","E">>

\* C9: in a cycle the brokerage calls are a prefix of get_clock, get_account,
\* submit_order; get_account follows a get_clock of the same cycle that said
\* open; submit_order follows a get_clock and a get_account that both
\* returned in the same cycle; a cycle starts with nothing fetched.
CallOrder ==
    /\ calls \in { <<>>, <<"get_clock">>, <<"get_clock", "get_account">>,
                   <<"get_clock", "get_account", "submit_order">> }
    /\ Called("get_account") => ClockOpen
    /\ ClockClosed => ~Called("get_account")
    /\ Called("submit_order") => (ClockOpen /\ cash_balance # <<>>)
    /\ pc = "get_clock" => (calls = <<>> /\ clock = <<>> /\ cash_balance = <<>>)
    /\ pc = "get_account" => (calls = <<"get_clock">> /\ cash_balance = <<>>)
    /\ pc = "submit_order" => calls = <<"get_clock", "get_account">>

ScheduledCycleFetched ==
    /\ caller = "schedule"
    /\ calls = <<"get_clock", "get_account", "submit_order">>
    /\ prevOutcome = "ordered"

\* C10: whether a cycle submits, and what, is decided by the clock and cash
\* fetched in that cycle alone: a cycle that ended without a gate raising
\* has submitted exactly when the market was open and the cash sufficient,
\* also when an order was already placed earlier the same day.
Decision(c, cash) ==
    IF c.is_open /\ cash # <<>> /\ cash[1] >= DailyAmount
    THEN << [symbol |-> "SPY", notional |-> 100, side |-> "buy", time_in_force |-> "day"] >>
    ELSE <<>>

====
